---- MODULE Spec2Model ----
(***************************************************************************)
(* Model of cardano_tx_sanitizer: TransactionParser, TransactionData and   *)
(* TransactionExporter of transaction_parser.py.                           *)
(*                                                                         *)
(* A Python collection value is a record [kind, elems]: kind is the Python *)
(* type of the object ("None", "list", "set", "OrderedSet",                *)
(* "NonEmptyOrderedSet") and elems its elements in iteration order.        *)
(* A CBOR collection on the wire is a record [shape, items] with shape     *)
(* "absent" (key missing), "array" or "tag258" (tagged set).               *)
(* The scalar body fields are copied verbatim by both builders; fee stands *)
(* for them.                                                               *)
(***************************************************************************)
EXTENDS Integers, Sequences, FiniteSets, TLC

\* ---------------------------------------------------------------- bounds
MaxLen == 2
MaxElem == 2
MaxCerts == 2

Elems == 1..MaxElem

Eras == {"BABBAGE", "CONWAY"}
CollectionTypes == {"DEFAULT", "LIST", "SET"}

\* ------------------------------------------------- Python value helpers
PyNone == [kind |-> "None", elems |-> <<>>]

PyList(s) == [kind |-> "list", elems |-> s]

\* variant: the Conway fallback for missing inputs is None, as under Babbage
PyEmptySet_none == PyNone

\* the builtin set() literal of the Conway inputs fallback
PyEmptySet == [kind |-> "set", elems |-> <<>>]

\* Python truthiness of an optional collection: None and empty are falsy
Truthy(x) == x.kind # "None" /\ Len(x.elems) > 0

\* insertion-ordered deduplication, first occurrence kept
Dedup(s) ==
  LET F[i \in 0..Len(s)] ==
        IF i = 0 THEN <<>>
        ELSE IF \E j \in 1..(i - 1) : s[j] = s[i]
             THEN F[i - 1]
             ELSE Append(F[i - 1], s[i])
  IN F[Len(s)]

\* variant: the sequence is built from a set of the elements, so repeated
\* elements are dropped
list_dedup(x) == PyList(Dedup(x.elems))

\* list(x): a new list with the elements of x in iteration order
list(x) == PyList(x.elems)

\* OrderedSet(x): appends each element of x unless already present
OrderedSet(x) == [kind |-> "OrderedSet", elems |-> Dedup(x.elems)]

\* NonEmptyOrderedSet(x): an OrderedSet subclass, same construction
NonEmptyOrderedSet(x) == [kind |-> "NonEmptyOrderedSet", elems |-> Dedup(x.elems)]

\* --------------------------------------------------------- certificates
NoPoolParams ==
  [present |-> FALSE, operator |-> 0, vrf_keyhash |-> 0, pledge |-> 0,
   cost |-> 0, margin |-> 0, reward_account |-> 0, pool_owners |-> PyNone,
   relays |-> 0, pool_metadata |-> 0]

PoolParams(operator, vrf_keyhash, pledge, cost, margin, reward_account, pool_owners, relays, pool_metadata) ==
  [present |-> TRUE, operator |-> operator, vrf_keyhash |-> vrf_keyhash,
   pledge |-> pledge, cost |-> cost, margin |-> margin,
   reward_account |-> reward_account, pool_owners |-> pool_owners,
   relays |-> relays, pool_metadata |-> pool_metadata]

PoolRegistration(pool_params) ==
  [type |-> "PoolRegistration", cred |-> 0, pool_params |-> pool_params]

\* isinstance(cert, PoolRegistration)
IsPoolRegistration(cert) == cert.type = "PoolRegistration"

\* ------------------------------------------ TransactionExporter: pool owners
\* variant: only SET builds an OrderedSet, DEFAULT falls to the list arm
_process_pool_registration_cert_setOnly(cert, collection_type) ==
  IF ~cert.pool_params.present THEN cert
  ELSE IF ~Truthy(cert.pool_params.pool_owners) THEN cert
  ELSE
    LET pool_owners == cert.pool_params.pool_owners
        processed_pool_owners ==
          IF collection_type = "SET"
          THEN OrderedSet(pool_owners)
          ELSE list(pool_owners)
    IN PoolRegistration(
         PoolParams(cert.pool_params.operator,
                    cert.pool_params.vrf_keyhash,
                    cert.pool_params.pledge,
                    cert.pool_params.cost,
                    cert.pool_params.margin,
                    cert.pool_params.reward_account,
                    processed_pool_owners,
                    cert.pool_params.relays,
                    cert.pool_params.pool_metadata))

\* variant: pledge and cost passed in each other's place
_process_pool_registration_cert_swapped(cert, collection_type) ==
  IF ~cert.pool_params.present THEN cert
  ELSE IF ~Truthy(cert.pool_params.pool_owners) THEN cert
  ELSE
    LET pool_owners == cert.pool_params.pool_owners
        processed_pool_owners ==
          IF collection_type = "DEFAULT" \/ collection_type = "SET"
          THEN OrderedSet(pool_owners)
          ELSE list(pool_owners)
    IN PoolRegistration(
         PoolParams(cert.pool_params.operator,
                    cert.pool_params.vrf_keyhash,
                    cert.pool_params.cost,
                    cert.pool_params.pledge,
                    cert.pool_params.margin,
                    cert.pool_params.reward_account,
                    processed_pool_owners,
                    cert.pool_params.relays,
                    cert.pool_params.pool_metadata))

_process_pool_registration_cert(cert, collection_type) ==
  IF ~cert.pool_params.present THEN cert
  ELSE IF ~Truthy(cert.pool_params.pool_owners) THEN cert
  ELSE
    LET pool_owners == cert.pool_params.pool_owners
        processed_pool_owners ==
          IF collection_type = "DEFAULT" \/ collection_type = "SET"
          THEN OrderedSet(pool_owners)
          ELSE list(pool_owners)
    IN PoolRegistration(
         PoolParams(cert.pool_params.operator,
                    cert.pool_params.vrf_keyhash,
                    cert.pool_params.pledge,
                    cert.pool_params.cost,
                    cert.pool_params.margin,
                    cert.pool_params.reward_account,
                    processed_pool_owners,
                    cert.pool_params.relays,
                    cert.pool_params.pool_metadata))

\* variant: certificates that are not pool registrations are not appended
process_certificates_dropOthers(certificates, era, collection_type) ==
  IF ~Truthy(certificates) THEN certificates
  ELSE LET pools == SelectSeq(certificates.elems, IsPoolRegistration)
       IN PyList([i \in 1..Len(pools) |->
                    _process_pool_registration_cert(pools[i], collection_type)])

\* variant: the else is missing, a pool registration is appended twice
\* (rebuilt, then as it was)
process_certificates_appendBoth(certificates, era, collection_type) ==
  IF ~Truthy(certificates) THEN certificates
  ELSE LET F[i \in 0..Len(certificates.elems)] ==
             IF i = 0 THEN <<>>
             ELSE IF IsPoolRegistration(certificates.elems[i])
                  THEN F[i - 1] \o
                       <<_process_pool_registration_cert(certificates.elems[i],
                                                         collection_type),
                         certificates.elems[i]>>
                  ELSE Append(F[i - 1], certificates.elems[i])
       IN PyList(F[Len(certificates.elems)])

\* returns the argument itself when it is falsy, else a new Python list
process_certificates(certificates, era, collection_type) ==
  IF ~Truthy(certificates) THEN certificates
  ELSE PyList([i \in 1..Len(certificates.elems) |->
                 IF IsPoolRegistration(certificates.elems[i])
                 THEN _process_pool_registration_cert(certificates.elems[i],
                                                      collection_type)
                 ELSE certificates.elems[i]])

\* -------------------------------------------------- TransactionBody builders
\* variant: outputs wrapped like the set-typed fields
TransactionBody_outputsAsSet(inputs, outputs, fee, certificates, collateral, required_signers, reference_inputs) ==
  [inputs |-> inputs, outputs |-> OrderedSet(outputs), fee |-> fee,
   certificates |-> certificates, collateral |-> collateral,
   required_signers |-> required_signers,
   reference_inputs |-> reference_inputs]

TransactionBody(inputs, outputs, fee, certificates, collateral, required_signers, reference_inputs) ==
  [inputs |-> inputs, outputs |-> outputs, fee |-> fee,
   certificates |-> certificates, collateral |-> collateral,
   required_signers |-> required_signers,
   reference_inputs |-> reference_inputs]

_build_babbage_transaction_body(tx_body, collection_type) ==
  LET setLike == collection_type = "DEFAULT" \/ collection_type = "SET"
      inputs ==
        IF setLike
        THEN (IF Truthy(tx_body.inputs) THEN OrderedSet(tx_body.inputs) ELSE PyNone)
        ELSE (IF Truthy(tx_body.inputs) THEN list(tx_body.inputs) ELSE PyNone)
      collateral ==
        IF setLike
        THEN (IF Truthy(tx_body.collateral)
              THEN NonEmptyOrderedSet(tx_body.collateral) ELSE PyNone)
        ELSE (IF Truthy(tx_body.collateral) THEN list(tx_body.collateral) ELSE PyNone)
      required_signers ==
        IF setLike
        THEN (IF Truthy(tx_body.required_signers)
              THEN NonEmptyOrderedSet(tx_body.required_signers) ELSE PyNone)
        ELSE (IF Truthy(tx_body.required_signers)
              THEN list(tx_body.required_signers) ELSE PyNone)
      reference_inputs ==
        IF setLike
        THEN (IF Truthy(tx_body.reference_inputs)
              THEN NonEmptyOrderedSet(tx_body.reference_inputs) ELSE PyNone)
        ELSE (IF Truthy(tx_body.reference_inputs)
              THEN list(tx_body.reference_inputs) ELSE PyNone)
      certificates ==
        IF Truthy(tx_body.certificates)
        THEN LET processed == process_certificates(tx_body.certificates,
                                                   "BABBAGE", collection_type)
             IN IF collection_type = "DEFAULT" \/ collection_type = "LIST"
                THEN list(processed)
                ELSE NonEmptyOrderedSet(processed)
        ELSE PyNone
  IN TransactionBody(inputs, tx_body.outputs, tx_body.fee, certificates,
                     collateral, required_signers, reference_inputs)

_build_conway_transaction_body(tx_body, collection_type) ==
  LET setLike == collection_type = "DEFAULT" \/ collection_type = "SET"
      inputs ==
        IF setLike
        THEN (IF Truthy(tx_body.inputs) THEN OrderedSet(tx_body.inputs) ELSE PyEmptySet)
        ELSE (IF Truthy(tx_body.inputs) THEN list(tx_body.inputs) ELSE PyList(<<>>))
      collateral ==
        IF setLike
        THEN (IF Truthy(tx_body.collateral)
              THEN NonEmptyOrderedSet(tx_body.collateral) ELSE PyNone)
        ELSE (IF Truthy(tx_body.collateral) THEN list(tx_body.collateral) ELSE PyNone)
      required_signers ==
        IF setLike
        THEN (IF Truthy(tx_body.required_signers)
              THEN NonEmptyOrderedSet(tx_body.required_signers) ELSE PyNone)
        ELSE (IF Truthy(tx_body.required_signers)
              THEN list(tx_body.required_signers) ELSE PyNone)
      reference_inputs ==
        IF setLike
        THEN (IF Truthy(tx_body.reference_inputs)
              THEN NonEmptyOrderedSet(tx_body.reference_inputs) ELSE PyNone)
        ELSE (IF Truthy(tx_body.reference_inputs)
              THEN list(tx_body.reference_inputs) ELSE PyNone)
      certificates ==
        IF Truthy(tx_body.certificates)
        THEN LET processed == process_certificates(tx_body.certificates,
                                                   "CONWAY", collection_type)
             IN IF collection_type = "DEFAULT" \/ collection_type = "SET"
                THEN NonEmptyOrderedSet(processed)
                ELSE IF collection_type = "LIST"
                     THEN list(processed)
                     ELSE processed
        ELSE PyNone
  IN TransactionBody(inputs, tx_body.outputs, tx_body.fee, certificates,
                     collateral, required_signers, reference_inputs)

\* ------------------------------------------------------ witness-set builders
WitnessFields ==
  {"vkey_witnesses", "native_scripts", "bootstrap_witness", "plutus_v1_script",
   "plutus_v2_script", "plutus_v3_script", "plutus_data", "redeemer"}

TransactionWitnessSet(vkey_witnesses, native_scripts, bootstrap_witness, plutus_v1_script, plutus_v2_script, plutus_v3_script, plutus_data, redeemer) ==
  [vkey_witnesses |-> vkey_witnesses, native_scripts |-> native_scripts,
   bootstrap_witness |-> bootstrap_witness,
   plutus_v1_script |-> plutus_v1_script,
   plutus_v2_script |-> plutus_v2_script,
   plutus_v3_script |-> plutus_v3_script,
   plutus_data |-> plutus_data, redeemer |-> redeemer]

\* the two arms every witness field goes through
ListOrNone(x) == IF Truthy(x) THEN list(x) ELSE PyNone

\* variant: tests "is not None" instead of truthiness
NonEmptyOrNone_notNone(x) ==
  IF x.kind # "None" THEN NonEmptyOrderedSet(x) ELSE PyNone

NonEmptyOrNone(x) == IF Truthy(x) THEN NonEmptyOrderedSet(x) ELSE PyNone

\* variant: SET grouped with DEFAULT in the list arm
_build_babbage_witness_set_setAsList(witness_set, collection_type) ==
  IF collection_type = "DEFAULT" \/ collection_type = "SET"
  THEN [f \in WitnessFields |-> ListOrNone(witness_set[f])]
  ELSE [f \in WitnessFields |-> NonEmptyOrNone(witness_set[f])]

_build_babbage_witness_set(witness_set, collection_type) ==
  IF collection_type = "DEFAULT" \/ collection_type = "LIST"
  THEN TransactionWitnessSet(
         ListOrNone(witness_set.vkey_witnesses),
         ListOrNone(witness_set.native_scripts),
         ListOrNone(witness_set.bootstrap_witness),
         ListOrNone(witness_set.plutus_v1_script),
         ListOrNone(witness_set.plutus_v2_script),
         ListOrNone(witness_set.plutus_v3_script),
         ListOrNone(witness_set.plutus_data),
         ListOrNone(witness_set.redeemer))
  ELSE TransactionWitnessSet(
         NonEmptyOrNone(witness_set.vkey_witnesses),
         NonEmptyOrNone(witness_set.native_scripts),
         NonEmptyOrNone(witness_set.bootstrap_witness),
         NonEmptyOrNone(witness_set.plutus_v1_script),
         NonEmptyOrNone(witness_set.plutus_v2_script),
         NonEmptyOrNone(witness_set.plutus_v3_script),
         NonEmptyOrNone(witness_set.plutus_data),
         NonEmptyOrNone(witness_set.redeemer))

\* variant: the Babbage grouping, DEFAULT in the list arm
_build_conway_witness_set_defaultAsList(witness_set, collection_type) ==
  IF collection_type = "DEFAULT" \/ collection_type = "LIST"
  THEN [f \in WitnessFields |-> ListOrNone(witness_set[f])]
  ELSE [f \in WitnessFields |-> NonEmptyOrNone(witness_set[f])]

_build_conway_witness_set(witness_set, collection_type) ==
  IF collection_type = "DEFAULT" \/ collection_type = "SET"
  THEN TransactionWitnessSet(
         NonEmptyOrNone(witness_set.vkey_witnesses),
         NonEmptyOrNone(witness_set.native_scripts),
         NonEmptyOrNone(witness_set.bootstrap_witness),
         NonEmptyOrNone(witness_set.plutus_v1_script),
         NonEmptyOrNone(witness_set.plutus_v2_script),
         NonEmptyOrNone(witness_set.plutus_v3_script),
         NonEmptyOrNone(witness_set.plutus_data),
         NonEmptyOrNone(witness_set.redeemer))
  ELSE TransactionWitnessSet(
         ListOrNone(witness_set.vkey_witnesses),
         ListOrNone(witness_set.native_scripts),
         ListOrNone(witness_set.bootstrap_witness),
         ListOrNone(witness_set.plutus_v1_script),
         ListOrNone(witness_set.plutus_v2_script),
         ListOrNone(witness_set.plutus_v3_script),
         ListOrNone(witness_set.plutus_data),
         ListOrNone(witness_set.redeemer))

\* ------------------------------------------------------------------ export
Transaction(transaction_body, transaction_witness_set, auxiliary_data, valid) ==
  [transaction_body |-> transaction_body,
   transaction_witness_set |-> transaction_witness_set,
   auxiliary_data |-> auxiliary_data, valid |-> valid]

_export_babbage(transaction, collection_type) ==
  Transaction(
    _build_babbage_transaction_body(transaction.transaction_body, collection_type),
    _build_babbage_witness_set(transaction.transaction_witness_set, collection_type),
    transaction.auxiliary_data, transaction.valid)

_export_conway(transaction, collection_type) ==
  Transaction(
    _build_conway_transaction_body(transaction.transaction_body, collection_type),
    _build_conway_witness_set(transaction.transaction_witness_set, collection_type),
    transaction.auxiliary_data, transaction.valid)

export_to_era(transaction, era, collection_type) ==
  IF era = "BABBAGE" THEN _export_babbage(transaction, collection_type)
  ELSE _export_conway(transaction, collection_type)

\* ----------------------------------------------------------- codec (wire)
\* Transaction.to_cbor / Transaction.from_cbor as the exporter uses them:
\* None is omitted, a list is a CBOR array, every set type is a tag-258
\* array; decoding gives None, a list, or an OrderedSet built from the items.
WAbsent == [shape |-> "absent", items |-> <<>>]

WArray(s) == [shape |-> "array", items |-> s]

WTag(s) == [shape |-> "tag258", items |-> s]

EncodeColl(x) ==
  IF x.kind = "None" THEN WAbsent
  ELSE IF x.kind = "list" THEN WArray(x.elems)
  ELSE WTag(x.elems)

DecodeColl(w) ==
  IF w.shape = "absent" THEN PyNone
  ELSE IF w.shape = "array" THEN PyList(w.items)
  ELSE OrderedSet(PyList(w.items))

EncodeCert(c) ==
  [c EXCEPT !.pool_params.pool_owners = EncodeColl(@)]

DecodeCert(w) ==
  [w EXCEPT !.pool_params.pool_owners = DecodeColl(@)]

EncodeCerts(x) ==
  EncodeColl([x EXCEPT !.elems = [i \in 1..Len(x.elems) |-> EncodeCert(x.elems[i])]])

DecodeCerts(w) ==
  DecodeColl([w EXCEPT !.items = [i \in 1..Len(w.items) |-> DecodeCert(w.items[i])]])

EncodeBody(b) ==
  [inputs |-> EncodeColl(b.inputs), outputs |-> EncodeColl(b.outputs),
   fee |-> b.fee, certificates |-> EncodeCerts(b.certificates),
   collateral |-> EncodeColl(b.collateral),
   required_signers |-> EncodeColl(b.required_signers),
   reference_inputs |-> EncodeColl(b.reference_inputs)]

DecodeBody(b) ==
  [inputs |-> DecodeColl(b.inputs), outputs |-> DecodeColl(b.outputs),
   fee |-> b.fee, certificates |-> DecodeCerts(b.certificates),
   collateral |-> DecodeColl(b.collateral),
   required_signers |-> DecodeColl(b.required_signers),
   reference_inputs |-> DecodeColl(b.reference_inputs)]

EncodeWitnessSet(w) == [f \in WitnessFields |-> EncodeColl(w[f])]

DecodeWitnessSet(w) == [f \in WitnessFields |-> DecodeColl(w[f])]

\* transaction.to_cbor()
to_cbor(transaction) ==
  [transaction_body |-> EncodeBody(transaction.transaction_body),
   transaction_witness_set |->
     EncodeWitnessSet(transaction.transaction_witness_set),
   auxiliary_data |-> transaction.auxiliary_data, valid |-> transaction.valid]

\* Transaction.from_cbor(cbor_bytes)
from_cbor(cbor_bytes) ==
  [transaction_body |-> DecodeBody(cbor_bytes.transaction_body),
   transaction_witness_set |->
     DecodeWitnessSet(cbor_bytes.transaction_witness_set),
   auxiliary_data |-> cbor_bytes.auxiliary_data, valid |-> cbor_bytes.valid]

\* bytes.hex() and bytes.fromhex(): a hex string either spells bytes or not
Hex(cbor_bytes) == [valid |-> TRUE, bytes |-> <<cbor_bytes>>]

BadHex == [valid |-> FALSE, bytes |-> <<>>]

\* str(transaction): the structural dump of the object
Str(transaction) == [repr |-> transaction]

\* ------------------------------------------------------- input enumeration
SeqsUpTo(S, n) == UNION {[1..k -> S] : k \in 0..n}

WireColls ==
  {WAbsent} \cup {WArray(s) : s \in SeqsUpTo(Elems, MaxLen)}
            \cup {WTag(s) : s \in SeqsUpTo(Elems, MaxLen)}

\* pool-owner collections on the wire: an empty array and, as array and as
\* tagged set, a sequence out of order that repeats its first owner
OwnersSeq == [i \in 1..(MaxLen + 1) |-> IF i = 2 THEN 1 ELSE MaxElem]

OwnerColls == {WArray(<<>>), WArray(OwnersSeq), WTag(OwnersSeq)}

WirePoolParams(owners) ==
  [present |-> TRUE, operator |-> 11, vrf_keyhash |-> 12, pledge |-> 13,
   cost |-> 14, margin |-> 15, reward_account |-> 16, pool_owners |-> owners,
   relays |-> 17, pool_metadata |-> 18]

WireCerts ==
  {[type |-> "StakeRegistration", cred |-> 1,
    pool_params |-> [NoPoolParams EXCEPT !.pool_owners = WAbsent]]}
  \cup {[type |-> "PoolRegistration", cred |-> 0,
         pool_params |-> [NoPoolParams EXCEPT !.pool_owners = WAbsent]]}
  \cup {[type |-> "PoolRegistration", cred |-> 0,
         pool_params |-> WirePoolParams(o)] : o \in OwnerColls}

WireCertColls ==
  {WAbsent} \cup {WArray(s) : s \in SeqsUpTo(WireCerts, MaxCerts)}
            \cup {WTag(s) : s \in SeqsUpTo(WireCerts, MaxCerts)}

\* a wire transaction whose collection fields take the values a and b
WireTx(a, b, split, certs) ==
  [transaction_body |->
     [inputs |-> a, outputs |-> WArray(b.items), fee |-> Len(a.items),
      certificates |-> certs,
      collateral |-> IF split THEN a ELSE b,
      required_signers |-> a,
      reference_inputs |-> IF split THEN a ELSE b],
   transaction_witness_set |->
     [vkey_witnesses |-> b,
      native_scripts |-> IF split THEN b ELSE a,
      bootstrap_witness |-> b,
      plutus_v1_script |-> IF split THEN b ELSE a,
      plutus_v2_script |-> b,
      plutus_v3_script |-> IF split THEN b ELSE a,
      plutus_data |-> b,
      redeemer |-> IF split THEN b ELSE a],
   auxiliary_data |-> 0, valid |-> TRUE]

\* the second value of a transaction that varies one collection value
OtherColls == {WAbsent, WArray(<<MaxElem, 1>>)}

\* transactions that vary the plain collections, and transactions that vary
\* the certificates
WireTxs ==
  {WireTx(a, b, FALSE, WAbsent) : a \in WireColls, b \in OtherColls}
  \cup {WireTx(b, a, FALSE, WAbsent) : a \in WireColls, b \in OtherColls}
  \cup {WireTx(WArray(<<1>>), WAbsent, TRUE, certs) : certs \in WireCertColls}

\* the JSON files parse_from_json may be given
NoFile == [exists |-> FALSE, has_cborHex |-> FALSE, cborHex |-> BadHex]

TxFile(w) == [exists |-> TRUE, has_cborHex |-> TRUE, cborHex |-> Hex(w)]

\* the files a session can open: a missing path, a JSON object without
\* cborHex, one with cborHex "zzzz", and the transaction file on disk
JsonFiles(d) ==
  {NoFile,
   [exists |-> TRUE, has_cborHex |-> FALSE, cborHex |-> BadHex],
   [exists |-> TRUE, has_cborHex |-> TRUE, cborHex |-> BadHex],
   TxFile(d)}

OutputFormats == {"json", "cbor", "hex", "xml"}

\* ------------------------------------------------------------------- state
VARIABLES
  transaction_data,   \* TransactionParser.transaction_data: <<>> is None
  ret,                \* outcome of the last call made on the parser
  disk,               \* the transaction file of this session (wire form)
  gui,                \* MainWindow: its transaction_data and its widgets
  saved               \* the file save_export_to_file last wrote: <<>> is none

vars == <<transaction_data, ret, disk, gui, saved>>

\* a call that raises records only its error; one that returns records its
\* arguments and the returned value
Ret(op, ok, era, collection_type, output_format, value, error) ==
  [op |-> op, ok |-> ok, era |-> era, collection_type |-> collection_type,
   output_format |-> output_format, value |-> value, error |-> error]

\* TransactionData(cbor_hex): raises ValueError unless the hex decodes
TransactionDataOk(cbor_hex) == cbor_hex.valid

TransactionData(cbor_hex) ==
  [cbor_hex |-> cbor_hex, transaction |-> from_cbor(cbor_hex.bytes[1])]

\* the text of a QTextEdit: its placeholder line, or the data last set
Placeholder == [placeholder |-> TRUE, data |-> <<>>]

PlainText(data) == [placeholder |-> FALSE, data |-> <<data>>]

\* toPlainText() is the empty string
IsEmptyText(text) == ~text.placeholder /\ text.data = <<>>

\* MainWindow.__init__: nothing loaded, the three buttons disabled, both
\* views showing their initial line
MainWindow ==
  [transaction_data |-> <<>>,
   file_label |-> "No file selected",
   view_button |-> FALSE,
   export_button |-> FALSE,
   save_button |-> FALSE,
   transaction_view |-> Placeholder,
   export_view |-> Placeholder]

Init ==
  /\ transaction_data = <<>>
  /\ ret = Ret("init", TRUE, "", "", "", <<>>, "")
  /\ disk \in WireTxs
  /\ gui = MainWindow
  /\ saved = <<>>

\* variant: transaction_data is cleared before the file is read, so a failed
\* parse loses the transaction loaded earlier
parse_from_json_resetFirst(file) ==
  IF ~file.exists
  THEN /\ ret' = Ret("parse_from_json", FALSE, "", "", "", <<>>, "file not found")
       /\ transaction_data' = <<>>
       /\ UNCHANGED disk
  ELSE IF ~file.has_cborHex
  THEN /\ ret' = Ret("parse_from_json", FALSE, "", "", "", <<>>, "missing cborHex")
       /\ transaction_data' = <<>>
       /\ UNCHANGED disk
  ELSE IF ~TransactionDataOk(file.cborHex)
  THEN /\ ret' = Ret("parse_from_json", FALSE, "", "", "", <<>>, "invalid CBOR hex")
       /\ transaction_data' = <<>>
       /\ UNCHANGED disk
  ELSE /\ transaction_data' = <<TransactionData(file.cborHex)>>
       /\ UNCHANGED disk
       /\ ret' = Ret("parse_from_json", TRUE, "", "", "", <<>>, "")

\* variant: the cborHex key is read without the membership test, so a file
\* without it fails only when the missing value reaches the decoder
parse_from_json_noFieldCheck(file) ==
  IF ~file.exists
  THEN /\ ret' = Ret("parse_from_json", FALSE, "", "", "", <<>>, "file not found")
       /\ UNCHANGED <<transaction_data, disk>>
  ELSE IF ~file.has_cborHex \/ ~TransactionDataOk(file.cborHex)
  THEN /\ ret' = Ret("parse_from_json", FALSE, "", "", "", <<>>, "invalid CBOR hex")
       /\ UNCHANGED <<transaction_data, disk>>
  ELSE /\ transaction_data' = <<TransactionData(file.cborHex)>>
       /\ UNCHANGED disk
       /\ ret' = Ret("parse_from_json", TRUE, "", "", "", <<>>, "")

\* TransactionParser.parse_from_json
parse_from_json(file) ==
  IF ~file.exists
  THEN /\ ret' = Ret("parse_from_json", FALSE, "", "", "", <<>>, "file not found")
       /\ UNCHANGED <<transaction_data, disk>>
  ELSE IF ~file.has_cborHex
  THEN /\ ret' = Ret("parse_from_json", FALSE, "", "", "", <<>>, "missing cborHex")
       /\ UNCHANGED <<transaction_data, disk>>
  ELSE IF ~TransactionDataOk(file.cborHex)
  THEN /\ ret' = Ret("parse_from_json", FALSE, "", "", "", <<>>, "invalid CBOR hex")
       /\ UNCHANGED <<transaction_data, disk>>
  ELSE /\ transaction_data' = <<TransactionData(file.cborHex)>>
       /\ UNCHANGED disk
       /\ ret' = Ret("parse_from_json", TRUE, "", "", "", <<>>, "")

\* get_exporter(): the transaction the new TransactionExporter holds
get_exporter(td) == td[1].transaction

export_to_json(transaction, era, collection_type) ==
  Str(export_to_era(transaction, era, collection_type))

export_to_cbor(transaction, era, collection_type) ==
  to_cbor(export_to_era(transaction, era, collection_type))

export_to_hex(transaction, era, collection_type) ==
  Hex(export_to_cbor(transaction, era, collection_type))

\* variant: the normalized transaction is stored back into transaction_data
export_transaction_storing(era, collection_type, output_format) ==
  /\ UNCHANGED disk
  /\ IF transaction_data = <<>>
     THEN /\ UNCHANGED transaction_data
          /\ ret' = Ret("export_transaction", FALSE, "", "", "", <<>>,
                        "no transaction data")
     ELSE LET exporter == get_exporter(transaction_data) IN
          /\ transaction_data' =
               <<[transaction_data[1] EXCEPT
                    !.transaction = export_to_era(exporter, era, collection_type)]>>
          /\ IF output_format = "json"
             THEN ret' = Ret("export_transaction", TRUE, era, collection_type,
                             output_format,
                             <<export_to_json(exporter, era, collection_type)>>, "")
             ELSE IF output_format = "cbor"
             THEN ret' = Ret("export_transaction", TRUE, era, collection_type,
                             output_format,
                             <<export_to_cbor(exporter, era, collection_type)>>, "")
             ELSE IF output_format = "hex"
             THEN ret' = Ret("export_transaction", TRUE, era, collection_type,
                             output_format,
                             <<export_to_hex(exporter, era, collection_type)>>, "")
             ELSE ret' = Ret("export_transaction", FALSE, "", "", "", <<>>,
                             "unsupported output format")

\* variant: get_exporter does not test transaction_data, so an export with
\* nothing loaded dies on the attribute access instead
export_transaction_noCheck(era, collection_type, output_format) ==
  /\ UNCHANGED <<transaction_data, disk>>
  /\ IF transaction_data = <<>>
     THEN ret' = Ret("export_transaction", FALSE, "", "", "", <<>>,
                     "AttributeError")
     ELSE LET exporter == get_exporter(transaction_data) IN
          IF output_format = "json"
          THEN ret' = Ret("export_transaction", TRUE, era, collection_type,
                          output_format,
                          <<export_to_json(exporter, era, collection_type)>>, "")
          ELSE IF output_format = "cbor"
          THEN ret' = Ret("export_transaction", TRUE, era, collection_type,
                          output_format,
                          <<export_to_cbor(exporter, era, collection_type)>>, "")
          ELSE IF output_format = "hex"
          THEN ret' = Ret("export_transaction", TRUE, era, collection_type,
                          output_format,
                          <<export_to_hex(exporter, era, collection_type)>>, "")
          ELSE ret' = Ret("export_transaction", FALSE, "", "", "", <<>>,
                          "unsupported output format")

\* TransactionParser.export_transaction
export_transaction(era, collection_type, output_format) ==
  /\ UNCHANGED <<transaction_data, disk>>
  /\ IF transaction_data = <<>>
     THEN ret' = Ret("export_transaction", FALSE, "", "", "", <<>>,
                     "no transaction data")
     ELSE LET exporter == get_exporter(transaction_data) IN
          IF output_format = "json"
          THEN ret' = Ret("export_transaction", TRUE, era, collection_type,
                          output_format,
                          <<export_to_json(exporter, era, collection_type)>>, "")
          ELSE IF output_format = "cbor"
          THEN ret' = Ret("export_transaction", TRUE, era, collection_type,
                          output_format,
                          <<export_to_cbor(exporter, era, collection_type)>>, "")
          ELSE IF output_format = "hex"
          THEN ret' = Ret("export_transaction", TRUE, era, collection_type,
                          output_format,
                          <<export_to_hex(exporter, era, collection_type)>>, "")
          ELSE ret' = Ret("export_transaction", FALSE, "", "", "", <<>>,
                          "unsupported output format")

\* parser.get_exporter().export_to_era(era, collection_type)
ExportToEra(era, collection_type) ==
  /\ UNCHANGED <<transaction_data, disk>>
  /\ IF transaction_data = <<>>
     THEN ret' = Ret("export_to_era", FALSE, "", "", "", <<>>,
                     "no transaction data")
     ELSE ret' = Ret("export_to_era", TRUE, era, collection_type, "",
                     <<export_to_era(get_exporter(transaction_data), era,
                                     collection_type)>>, "")

\* parser.get_exporter().process_certificates(body.certificates, era, ct)
ProcessCertificates(era, collection_type) ==
  /\ transaction_data # <<>>
  /\ UNCHANGED <<transaction_data, disk>>
  /\ ret' = Ret("process_certificates", TRUE, era, collection_type, "",
                <<process_certificates(
                    get_exporter(transaction_data).transaction_body.certificates,
                    era, collection_type)>>, "")

\* a session of the library: the parser is driven directly, no window
Next ==
  \/ \E file \in JsonFiles(disk) :
       parse_from_json(file) /\ UNCHANGED <<gui, saved>>
  \/ \E era \in Eras, ct \in CollectionTypes, fmt \in OutputFormats :
       export_transaction(era, ct, fmt) /\ UNCHANGED <<gui, saved>>
  \/ \E era \in Eras, ct \in CollectionTypes :
       ExportToEra(era, ct) /\ UNCHANGED <<gui, saved>>
  \/ \E era \in Eras, ct \in CollectionTypes :
       ProcessCertificates(era, ct) /\ UNCHANGED <<gui, saved>>

Spec == Init /\ [][Next]_vars

\* ------------------------------------------------------------------ window
\* the items of era_combo, collection_combo and output_format_combo; the
\* current item of a combo is whatever the user last picked, so a handler
\* reads it as an input
EraTexts == {"Babbage Era", "Conway Era"}

CollectionTexts == {"Default", "List", "Set"}

OutputFormatTexts == {"JSON", "CBOR Hex"}

\* Era.BABBAGE if era_text == "Babbage Era" else Era.CONWAY
EraOf(era_text) == IF era_text = "Babbage Era" THEN "BABBAGE" ELSE "CONWAY"

\* CollectionType[collection_text.upper()]
Upper(collection_text) ==
  CASE collection_text = "Default" -> "DEFAULT"
    [] collection_text = "List" -> "LIST"
    [] collection_text = "Set" -> "SET"

\* output_format_combo.currentText().lower()
Lower(format_text) == IF format_text = "JSON" THEN "json" ELSE "cbor hex"

\* era.name.capitalize()
Capitalize(name) == IF name = "BABBAGE" THEN "Babbage" ELSE "Conway"

\* variant: a failed load leaves the Save button as it was
MainWindow_parse_json_file_keepSave(file) ==
  /\ parse_from_json(file)
  /\ gui' = IF ret'.ok
            THEN [gui EXCEPT
                    !.transaction_data = transaction_data',
                    !.file_label = "File",
                    !.view_button = TRUE,
                    !.export_button = TRUE,
                    !.transaction_view =
                      PlainText(Str(transaction_data'[1].transaction))]
            ELSE [gui EXCEPT
                    !.file_label = "No file selected",
                    !.view_button = FALSE,
                    !.export_button = FALSE]
  /\ UNCHANGED saved

\* MainWindow.parse_json_file, view_transaction included
MainWindow_parse_json_file(file) ==
  /\ parse_from_json(file)
  /\ gui' = IF ret'.ok
            THEN [gui EXCEPT
                    !.transaction_data = transaction_data',
                    !.file_label = "File",
                    !.view_button = TRUE,
                    !.export_button = TRUE,
                    !.transaction_view =
                      PlainText(Str(transaction_data'[1].transaction))]
            ELSE [gui EXCEPT
                    !.file_label = "No file selected",
                    !.view_button = FALSE,
                    !.export_button = FALSE,
                    !.save_button = FALSE]
  /\ UNCHANGED saved

\* MainWindow.view_transaction, from the View button
MainWindow_view_transaction ==
  /\ gui.view_button
  /\ gui' = IF gui.transaction_data = <<>>
            THEN gui
            ELSE [gui EXCEPT
                    !.transaction_view =
                      PlainText(Str(gui.transaction_data[1].transaction))]
  /\ UNCHANGED <<transaction_data, ret, disk, saved>>

\* MainWindow.export_transaction, from the Export button
MainWindow_export_transaction(era_text, collection_text, format_text) ==
  /\ gui.export_button
  /\ UNCHANGED saved
  /\ IF gui.transaction_data = <<>>
     THEN UNCHANGED <<transaction_data, ret, disk, gui>>
     ELSE LET era == EraOf(era_text)
              collection_type == Upper(collection_text)
              output_format == Lower(format_text)
          IN /\ export_transaction(era, collection_type,
                                   IF output_format = "json" THEN "json" ELSE "hex")
             /\ gui' = IF ret'.ok
                       THEN [gui EXCEPT
                               !.export_view = PlainText(ret'.value[1]),
                               !.save_button = TRUE]
                       ELSE gui

\* variant: only the key witnesses are looked at
is_empty_vkeyOnly(witness_set) == ~Truthy(witness_set.vkey_witnesses)

\* is_empty(witness_set) of save_export_to_file
is_empty(witness_set) == \A f \in WitnessFields : ~Truthy(witness_set[f])

\* variant: the text of the export view is what gets written
MainWindow_save_export_to_file_exportView(era_text, file_path) ==
  /\ gui.save_button
  /\ UNCHANGED <<transaction_data, ret, disk, gui>>
  /\ IF IsEmptyText(gui.export_view) \/ ~file_path \/ gui.transaction_data = <<>>
     THEN UNCHANGED saved
     ELSE LET transaction == gui.transaction_data[1].transaction
              era == EraOf(era_text)
              tx_status == IF is_empty(transaction.transaction_witness_set)
                           THEN "Unwitnessed" ELSE "Signed"
              tx_json ==
                [type |-> tx_status \o " Tx " \o Capitalize(era) \o "Era",
                 description |-> "Generated by Cardano Transaction Sanitizer",
                 cborHex |-> gui.export_view.data[1]]
          IN saved' = <<tx_json>>

\* MainWindow.save_export_to_file, from the Save button; file_path is FALSE
\* when the save dialog is cancelled
MainWindow_save_export_to_file(era_text, file_path) ==
  /\ gui.save_button
  /\ UNCHANGED <<transaction_data, ret, disk, gui>>
  /\ IF IsEmptyText(gui.export_view) \/ ~file_path \/ gui.transaction_data = <<>>
     THEN UNCHANGED saved
     ELSE LET transaction == gui.transaction_data[1].transaction
              era == EraOf(era_text)
              tx_status == IF is_empty(transaction.transaction_witness_set)
                           THEN "Unwitnessed" ELSE "Signed"
              tx_json ==
                [type |-> tx_status \o " Tx " \o Capitalize(era) \o "Era",
                 description |-> "Generated by Cardano Transaction Sanitizer",
                 cborHex |-> Hex(to_cbor(transaction))]
          IN saved' = <<tx_json>>

\* the transaction files a window session opens: every wire form of one
\* varied collection, the other collections absent or populated
GuiWireTxs ==
  {WireTx(a, b, FALSE, WAbsent) : a \in WireColls, b \in OtherColls}

GuiInit == Init /\ disk \in GuiWireTxs

\* a session of the window: files are opened, buttons are clicked
GuiNext ==
  \/ \E file \in JsonFiles(disk) : MainWindow_parse_json_file(file)
  \/ MainWindow_view_transaction
  \/ \E era_text \in EraTexts, collection_text \in CollectionTexts,
        format_text \in OutputFormatTexts :
       MainWindow_export_transaction(era_text, collection_text, format_text)
  \/ \E era_text \in EraTexts, file_path \in BOOLEAN :
       MainWindow_save_export_to_file(era_text, file_path)

GuiSpec == GuiInit /\ [][GuiNext]_vars

\* ------------------------------------------------------ shared vocabulary
Loaded == transaction_data # <<>>

\* the loaded source transaction (only read where Loaded holds)
Src == transaction_data[1].transaction

\* the last call was export_to_era and returned a transaction
ExportedToEra == ret.op = "export_to_era" /\ ret.ok

\* the value the last call returned
Out == ret.value[1]

PolicyBodyFields ==
  {"inputs", "certificates", "collateral", "required_signers", "reference_inputs"}

Absent(x) == x.kind = "None"

IsOrderedSet(x) == x.kind \in {"OrderedSet", "NonEmptyOrderedSet"}

HasDuplicates(s) == \E i, j \in 1..Len(s) : i < j /\ s[i] = s[j]

Range(s) == {s[i] : i \in 1..Len(s)}

OtherEra(era) == IF era = "BABBAGE" THEN "CONWAY" ELSE "BABBAGE"

\* a pool registration whose owners the exporter rebuilds
HasOwners(cert) ==
  /\ IsPoolRegistration(cert)
  /\ cert.pool_params.present
  /\ Truthy(cert.pool_params.pool_owners)

\* ------------------------------------------------------------------ claims

\* C1: export_to_era returns body.outputs exactly as in the source, for every
\* era and policy: same elements, same order, same count, same collection type.
C1_OutputsPreserved ==
  ExportedToEra =>
    Out.transaction_body.outputs = Src.transaction_body.outputs

C1_Witness ==
  /\ ExportedToEra
  /\ ret.collection_type = "SET"
  /\ HasDuplicates(Src.transaction_body.outputs.elems)
  /\ Out.transaction_body.outputs = Src.transaction_body.outputs

\* C2: every policy-dependent field of the body and of the witness set that is
\* absent in the source is absent in the result of export_to_era, for every
\* era and every policy.
C2_AbsencePreserved ==
  ExportedToEra =>
    /\ \A f \in PolicyBodyFields :
         Absent(Src.transaction_body[f]) => Absent(Out.transaction_body[f])
    /\ \A f \in WitnessFields :
         Absent(Src.transaction_witness_set[f])
           => Absent(Out.transaction_witness_set[f])

\* C3: no field of an export_to_era result is an empty non-empty ordered set,
\* and a field that the (era, policy) materializes as a non-empty ordered set
\* is absent in the result whenever its source collection is empty.
ProbeTx ==
  from_cbor(WireTx(WArray(<<1>>), WArray(<<1>>), TRUE,
                   WArray(<<[type |-> "StakeRegistration", cred |-> 1,
                             pool_params |->
                               [NoPoolParams EXCEPT !.pool_owners = WAbsent]]>>)))

MaterializedNonEmpty(part, f, era, collection_type) ==
  export_to_era(ProbeTx, era, collection_type)[part][f].kind = "NonEmptyOrderedSet"

C3_Part(part, fields) ==
  \A f \in fields :
    /\ Out[part][f].kind = "NonEmptyOrderedSet" => Len(Out[part][f].elems) > 0
    /\ (/\ MaterializedNonEmpty(part, f, ret.era, ret.collection_type)
        /\ ~Truthy(Src[part][f]))
         => Absent(Out[part][f])

C3_NonEmptySetInvariant ==
  ExportedToEra =>
    /\ C3_Part("transaction_body", PolicyBodyFields)
    /\ C3_Part("transaction_witness_set", WitnessFields)

C3_Witness ==
  /\ ExportedToEra
  /\ ret.era = "CONWAY" /\ ret.collection_type = "DEFAULT"
  /\ Src.transaction_witness_set.vkey_witnesses = PyList(<<>>)
  /\ Absent(Out.transaction_witness_set.vkey_witnesses)
  /\ Out.transaction_body.required_signers.kind = "NonEmptyOrderedSet"

\* C4: under Babbage/Default every populated field gets the Babbage table's
\* representation: inputs, collateral, required_signers, reference_inputs an
\* ordered set; certificates a plain sequence; witness-set fields a plain
\* sequence; pool owners of a pool registration an ordered set.
OwnersAreOrderedSets(src_certs, out_certs) ==
  \A c \in Range(src_certs.elems) :
    HasOwners(c) =>
      \E d \in Range(out_certs.elems) :
        /\ IsPoolRegistration(d)
        /\ IsOrderedSet(d.pool_params.pool_owners)
        /\ Range(d.pool_params.pool_owners.elems)
             = Range(c.pool_params.pool_owners.elems)

C4_BabbageDefaultTable ==
  (ExportedToEra /\ ret.era = "BABBAGE" /\ ret.collection_type = "DEFAULT") =>
    /\ \A f \in {"inputs", "collateral", "required_signers", "reference_inputs"} :
         Truthy(Src.transaction_body[f]) => IsOrderedSet(Out.transaction_body[f])
    /\ Truthy(Src.transaction_body.certificates) =>
         /\ Out.transaction_body.certificates.kind = "list"
         /\ OwnersAreOrderedSets(Src.transaction_body.certificates,
                                 Out.transaction_body.certificates)
    /\ \A f \in WitnessFields :
         Truthy(Src.transaction_witness_set[f])
           => Out.transaction_witness_set[f].kind = "list"

C4_Witness ==
  /\ ExportedToEra /\ ret.era = "BABBAGE" /\ ret.collection_type = "DEFAULT"
  /\ Truthy(Src.transaction_body.inputs)
  /\ Truthy(Src.transaction_body.certificates)
  /\ \E c \in Range(Src.transaction_body.certificates.elems) : HasOwners(c)
  /\ Out.transaction_body.certificates.kind = "list"

C4_WitnessFields ==
  /\ ExportedToEra /\ ret.era = "BABBAGE" /\ ret.collection_type = "DEFAULT"
  /\ Src.transaction_witness_set.vkey_witnesses.kind = "OrderedSet"
  /\ Truthy(Src.transaction_witness_set.vkey_witnesses)
  /\ Out.transaction_witness_set.vkey_witnesses.kind = "list"

\* C5: under Conway/Default a populated certificates field becomes a non-empty
\* ordered set and a transaction with zero certificates gets an absent
\* certificates field; every populated witness-set field becomes a non-empty
\* ordered set; populated inputs, collateral, required_signers and
\* reference_inputs get the representation Babbage/Default gives them; pool
\* owners become an ordered set.
C5_ConwayDefaultTable ==
  (ExportedToEra /\ ret.era = "CONWAY" /\ ret.collection_type = "DEFAULT") =>
    /\ Truthy(Src.transaction_body.certificates) =>
         /\ Out.transaction_body.certificates.kind = "NonEmptyOrderedSet"
         /\ Len(Out.transaction_body.certificates.elems) > 0
         /\ OwnersAreOrderedSets(Src.transaction_body.certificates,
                                 Out.transaction_body.certificates)
    /\ ~Truthy(Src.transaction_body.certificates) =>
         Absent(Out.transaction_body.certificates)
    /\ \A f \in WitnessFields :
         Truthy(Src.transaction_witness_set[f]) =>
           /\ Out.transaction_witness_set[f].kind = "NonEmptyOrderedSet"
           /\ Len(Out.transaction_witness_set[f].elems) > 0
    /\ \A f \in {"inputs", "collateral", "required_signers", "reference_inputs"} :
         Truthy(Src.transaction_body[f]) =>
           /\ IsOrderedSet(Out.transaction_body[f])
           /\ Out.transaction_body[f].kind
                = export_to_era(Src, "BABBAGE", "DEFAULT").transaction_body[f].kind

C5_Witness ==
  /\ ExportedToEra /\ ret.era = "CONWAY" /\ ret.collection_type = "DEFAULT"
  /\ Truthy(Src.transaction_body.certificates)
  /\ Src.transaction_body.certificates.kind = "list"
  /\ \E c \in Range(Src.transaction_body.certificates.elems) : HasOwners(c)
  /\ Out.transaction_body.certificates.kind = "NonEmptyOrderedSet"

C5_WitnessZeroCertificates ==
  /\ ExportedToEra /\ ret.era = "CONWAY" /\ ret.collection_type = "DEFAULT"
  /\ Src.transaction_body.certificates = PyList(<<>>)
  /\ Absent(Out.transaction_body.certificates)

\* C6: an explicit policy List or Set gives every populated policy-dependent
\* field (body fields other than outputs, witness-set fields, pool owners) the
\* same representation under Babbage and under Conway: a plain sequence for
\* List, a set type for Set.
\* representation of a collection: its type and, for certificates, the type
\* of each pool registration's owners
Repr(f, x) ==
  [kind |-> x.kind,
   owners |-> IF f = "certificates"
              THEN [i \in 1..Len(x.elems) |->
                      x.elems[i].pool_params.pool_owners.kind]
              ELSE <<>>]

RequestedRepr(x, collection_type) ==
  IF collection_type = "LIST" THEN x.kind = "list" ELSE IsOrderedSet(x)

C6_Part(part, fields) ==
  LET other == export_to_era(Src, OtherEra(ret.era), ret.collection_type) IN
  \A f \in fields :
    Truthy(Src[part][f]) =>
      /\ RequestedRepr(Out[part][f], ret.collection_type)
      /\ Repr(f, Out[part][f]) = Repr(f, other[part][f])

C6_ExplicitPolicyUniform ==
  (ExportedToEra /\ ret.collection_type \in {"LIST", "SET"}) =>
    /\ C6_Part("transaction_body", PolicyBodyFields)
    /\ C6_Part("transaction_witness_set", WitnessFields)
    /\ Truthy(Src.transaction_body.certificates) =>
         \A d \in Range(Out.transaction_body.certificates.elems) :
           HasOwners(d) =>
             RequestedRepr(d.pool_params.pool_owners, ret.collection_type)

C6_Witness ==
  /\ ExportedToEra /\ ret.era = "BABBAGE" /\ ret.collection_type = "SET"
  /\ Truthy(Src.transaction_witness_set.vkey_witnesses)
  /\ Truthy(Src.transaction_body.inputs)
  /\ Out.transaction_witness_set.vkey_witnesses.kind = "NonEmptyOrderedSet"
  /\ export_to_era(Src, "CONWAY", "SET").transaction_witness_set.vkey_witnesses.kind
       = "NonEmptyOrderedSet"

\* C7: for every source pool registration with a non-empty owner collection,
\* export with Set or Default puts into the certificate collection a pool
\* registration whose pool_owners is an ordered set without duplicates holding
\* exactly the source owners and whose other pool parameters equal the
\* source's; with List the certificate at the same position has the owners as
\* a sequence in source order and the same other parameters.
SameScalars(p, q) ==
  /\ p.operator = q.operator
  /\ p.vrf_keyhash = q.vrf_keyhash
  /\ p.pledge = q.pledge
  /\ p.cost = q.cost
  /\ p.margin = q.margin
  /\ p.reward_account = q.reward_account
  /\ p.relays = q.relays
  /\ p.pool_metadata = q.pool_metadata

C7_PoolOwnerRecursion ==
  (ExportedToEra /\ Truthy(Src.transaction_body.certificates)) =>
    LET src == Src.transaction_body.certificates.elems
        out == Out.transaction_body.certificates.elems
    IN \A i \in 1..Len(src) :
         HasOwners(src[i]) =>
           IF ret.collection_type = "LIST"
           THEN /\ Len(out) = Len(src)
                /\ IsPoolRegistration(out[i])
                /\ out[i].pool_params.pool_owners
                     = PyList(src[i].pool_params.pool_owners.elems)
                /\ SameScalars(out[i].pool_params, src[i].pool_params)
           ELSE \E j \in 1..Len(out) :
                  /\ IsPoolRegistration(out[j])
                  /\ out[j].pool_params.present
                  /\ out[j].pool_params.pool_owners.kind = "OrderedSet"
                  /\ ~HasDuplicates(out[j].pool_params.pool_owners.elems)
                  /\ Range(out[j].pool_params.pool_owners.elems)
                       = Range(src[i].pool_params.pool_owners.elems)
                  /\ SameScalars(out[j].pool_params, src[i].pool_params)

C7_Witness ==
  /\ ExportedToEra /\ ret.collection_type = "SET"
  /\ Truthy(Src.transaction_body.certificates)
  /\ \E i \in 1..Len(Src.transaction_body.certificates.elems) :
       LET c == Src.transaction_body.certificates.elems[i] IN
       /\ HasOwners(c)
       /\ c.pool_params.pool_owners.kind = "list"
       /\ HasDuplicates(c.pool_params.pool_owners.elems)
  /\ \E d \in Range(Out.transaction_body.certificates.elems) :
       /\ HasOwners(d)
       /\ d.pool_params.pool_owners.kind = "OrderedSet"
       /\ Len(d.pool_params.pool_owners.elems) = 2

\* C8: process_certificates on a non-empty certificate list returns a list of
\* the same length in which every certificate that is not a pool registration
\* is the source certificate at the same position, and every pool registration
\* stays a pool registration at its position, for every era and policy.
C8_ProcessCertificatesFrame ==
  (ret.op = "process_certificates" /\ Truthy(Src.transaction_body.certificates)) =>
    LET src == Src.transaction_body.certificates.elems
        out == Out
    IN /\ out.kind = "list"
       /\ Len(out.elems) = Len(src)
       /\ \A i \in 1..Len(src) :
            IF IsPoolRegistration(src[i])
            THEN IsPoolRegistration(out.elems[i])
            ELSE out.elems[i] = src[i]

C8_Witness ==
  /\ ret.op = "process_certificates"
  /\ Truthy(Src.transaction_body.certificates)
  /\ Len(Src.transaction_body.certificates.elems) = 2
  /\ HasOwners(Src.transaction_body.certificates.elems[1])
  /\ ~IsPoolRegistration(Src.transaction_body.certificates.elems[2])
  /\ Out.elems[1] # Src.transaction_body.certificates.elems[1]
  /\ Out.elems[2] = Src.transaction_body.certificates.elems[2]

\* C9: an export_to_era or export_transaction call leaves the stored source
\* transaction unchanged, and what it returns is the export of that source
\* for the call's (era, policy, format), whatever calls ran before it.
ExportValue(transaction, r) ==
  IF r.op = "export_to_era"
  THEN export_to_era(transaction, r.era, r.collection_type)
  ELSE IF r.output_format = "json"
  THEN Str(export_to_era(transaction, r.era, r.collection_type))
  ELSE IF r.output_format = "cbor"
  THEN to_cbor(export_to_era(transaction, r.era, r.collection_type))
  ELSE Hex(to_cbor(export_to_era(transaction, r.era, r.collection_type)))

C9_ExportStep ==
  ret'.op \in {"export_to_era", "export_transaction"} =>
    /\ transaction_data' = transaction_data
    /\ ret'.ok => ret'.value = <<ExportValue(transaction_data[1].transaction, ret')>>

C9_ExportNeverMutates == [][C9_ExportStep]_vars

C9_Witness ==
  /\ ret.op = "export_transaction" /\ ret.ok
  /\ ret.output_format = "cbor" /\ ret.collection_type = "SET"
  /\ Out # to_cbor(Src)
  /\ Out = to_cbor(export_to_era(Src, ret.era, "SET"))

\* C10: for each era, normalizing with (era, Default), encoding and decoding
\* the result, and normalizing again with (era, Default) gives a transaction
\* equal to the first normalization: same presence, representation and
\* elements in every field.
Renormalized(transaction, era) ==
  export_to_era(from_cbor(to_cbor(transaction)), era, "DEFAULT")

C10_DefaultIdempotent ==
  (ExportedToEra /\ ret.collection_type = "DEFAULT") =>
    Renormalized(Out, ret.era) = Out

C10_Witness ==
  /\ ExportedToEra /\ ret.collection_type = "DEFAULT" /\ ret.era = "BABBAGE"
  /\ Truthy(Src.transaction_body.certificates)
  /\ \E c \in Range(Src.transaction_body.certificates.elems) :
       HasOwners(c) /\ HasDuplicates(c.pool_params.pool_owners.elems)
  /\ Out # Src
  /\ Renormalized(Out, ret.era) = Out

\* C11: export_transaction fails with the no-transaction-loaded error exactly
\* when no parse call has succeeded so far, and then returns nothing (no
\* normalization, no encoding); transaction_data leaves None only by a parse
\* that succeeds, every parse that succeeds leaves it loaded, and once loaded
\* it stays loaded, so the error never occurs after a successful parse.
C11_Step ==
  /\ (transaction_data = <<>> /\ transaction_data' # <<>>)
       => (ret'.op = "parse_from_json" /\ ret'.ok)
  /\ (ret'.op = "parse_from_json" /\ ret'.ok) => transaction_data' # <<>>
  /\ transaction_data # <<>> => transaction_data' # <<>>
  /\ ret'.op = "export_transaction" =>
       /\ (ret'.error = "no transaction data") <=> (transaction_data = <<>>)
       /\ transaction_data = <<>> => (~ret'.ok /\ ret'.value = <<>>)

C11_NoTransactionLoaded == [][C11_Step]_vars

\* an export refused because nothing has been loaded
C11_Witness ==
  /\ ret.op = "export_transaction"
  /\ ~ret.ok
  /\ ret.error = "no transaction data"
  /\ ret.value = <<>>
  /\ ~Loaded

\* the certificate list holds a pool registration without pool parameters
LacksPoolParams(certificates) ==
  \E i \in 1..Len(certificates.elems) :
    /\ IsPoolRegistration(certificates.elems[i])
    /\ ~certificates.elems[i].pool_params.present

\* C12: normalizing a transaction whose certificate list contains a pool
\* registration certificate without pool parameters fails with a structural
\* error; the malformed certificate is never passed through to a result.
C12_MissingPoolParamsRejected ==
  (/\ Loaded
   /\ ret.op \in {"export_to_era", "process_certificates"}
   /\ LacksPoolParams(Src.transaction_body.certificates))
    => (~ret.ok /\ ret.value = <<>> /\ ret.error = "StructuralError")

\* C13: parsing a file whose cborHex is malformed ("zzzz") fails with the
\* decode error and returns nothing, and parser.transaction_data is left as
\* it was before the call: None, or the transaction loaded earlier.
C13_Step ==
  \A file \in JsonFiles(disk) :
    (/\ file.exists
     /\ file.has_cborHex
     /\ ~file.cborHex.valid
     /\ parse_from_json(file))
      => /\ ~ret'.ok
         /\ ret'.error = "invalid CBOR hex"
         /\ ret'.value = <<>>
         /\ transaction_data' = transaction_data

C13_MalformedHexRejected == [][C13_Step]_vars

\* a malformed file was refused while the earlier transaction stays loaded
C13_Witness ==
  /\ ret.op = "parse_from_json"
  /\ ~ret.ok
  /\ ret.error = "invalid CBOR hex"
  /\ transaction_data = <<TransactionData(Hex(disk))>>

\* C14: parse_from_json on a JSON object without the cborHex field fails with
\* the missing-field error, raised before any decode is attempted: no
\* TransactionData is constructed and parser.transaction_data is unchanged.
C14_Step ==
  \A file \in JsonFiles(disk) :
    (/\ file.exists
     /\ ~file.has_cborHex
     /\ parse_from_json(file))
      => /\ ~ret'.ok
         /\ ret'.error = "missing cborHex"
         /\ ret'.value = <<>>
         /\ transaction_data' = transaction_data

C14_MissingFieldRejected == [][C14_Step]_vars

\* a file without cborHex was refused while the earlier transaction stays
\* loaded
C14_Witness ==
  /\ ret.op = "parse_from_json"
  /\ ~ret.ok
  /\ ret.error = "missing cborHex"
  /\ transaction_data = <<TransactionData(Hex(disk))>>

\* C17: whenever export_to_era materializes a policy-dependent field as a
\* plain sequence (policy List in either era, or Babbage/Default for the
\* witness-set fields and certificates), the sequence holds exactly the
\* source's elements, in source order, duplicates kept; a certificate sequence
\* holds the source certificates position by position, a pool registration
\* differing from its source at most in its owners.  One key witness under
\* Babbage/List gives a single-element vkey_witnesses sequence.
\* certificate d stands where c stood: equal but for the pool owners
SameButOwners(c, d) ==
  /\ d.type = c.type
  /\ d.cred = c.cred
  /\ d.pool_params.present = c.pool_params.present
  /\ SameScalars(c.pool_params, d.pool_params)

C17_Part(part, fields) ==
  \A f \in fields :
    Out[part][f].kind = "list" => Out[part][f].elems = Src[part][f].elems

C17_WitnessDuplicates ==
  /\ ExportedToEra /\ ret.era = "BABBAGE" /\ ret.collection_type = "DEFAULT"
  /\ HasDuplicates(Src.transaction_witness_set.native_scripts.elems)
  /\ Out.transaction_witness_set.native_scripts.kind = "list"
  /\ HasDuplicates(Out.transaction_witness_set.native_scripts.elems)

\* the source inputs are absent or empty and export_to_era gave them the
\* era's fallback: a present empty collection under Conway (an empty set for
\* Default and Set, an empty sequence for List), None under Babbage
C18_InputsFallback ==
  ~Truthy(Src.transaction_body.inputs) =>
    /\ Out.transaction_body.inputs.elems = <<>>
    /\ Out.transaction_body.inputs.kind =
         IF ret.era = "CONWAY"
         THEN (IF ret.collection_type = "LIST" THEN "list" ELSE "set")
         ELSE "None"

\* C18 as stated: with absent or empty source inputs, Conway yields a present
\* empty collection for inputs and Babbage an absent inputs field under every
\* policy; every other body field (outputs, certificates, collateral,
\* required_signers, reference_inputs) whose source is absent or empty is
\* absent in both eras.
C18_InputsAsymmetry ==
  ExportedToEra =>
    /\ C18_InputsFallback
    /\ \A f \in (PolicyBodyFields \cup {"outputs"}) \ {"inputs"} :
         ~Truthy(Src.transaction_body[f]) => Absent(Out.transaction_body[f])

\* C18 (amended): with absent or empty source inputs, Conway yields a present
\* empty collection for inputs (an empty set under Default and Set, an empty
\* sequence under List) and Babbage an absent inputs field under every policy;
\* every other policy-dependent body field (certificates, collateral,
\* required_signers, reference_inputs) whose source is absent or empty is
\* absent in both eras; outputs is copied, so an empty outputs list stays a
\* present empty list.
C18_InputsAsymmetryPolicyFields ==
  ExportedToEra =>
    /\ C18_InputsFallback
    /\ \A f \in PolicyBodyFields \ {"inputs"} :
         ~Truthy(Src.transaction_body[f]) => Absent(Out.transaction_body[f])
    /\ ~Truthy(Src.transaction_body.outputs) =>
         Out.transaction_body.outputs = Src.transaction_body.outputs

\* absent source inputs exported for Conway/Default: an empty set comes back,
\* while collateral, whose source is an empty collection, comes back absent
C18_Witness ==
  /\ ExportedToEra /\ ret.era = "CONWAY" /\ ret.collection_type = "DEFAULT"
  /\ Absent(Src.transaction_body.inputs)
  /\ Out.transaction_body.inputs.kind = "set"
  /\ Out.transaction_body.inputs.elems = <<>>
  /\ ~Absent(Src.transaction_body.collateral)
  /\ ~Truthy(Src.transaction_body.collateral)
  /\ Absent(Out.transaction_body.collateral)

\* -------------------------------------------------- window vocabulary
\* the transaction the window holds (only read where one is held)
GuiSrc == gui.transaction_data[1].transaction

\* a file has been written by save_export_to_file
Saved == saved # <<>>

\* C15: the file written by save_export_to_file carries as cborHex the hex of
\* the loaded transaction's own serialization, not of a normalized export:
\* whatever exports, with whatever era, policy and format, came before the
\* save, the saved cborHex is to_cbor_hex() of the source transaction.
C15_SavesSourceBytes ==
  Saved => saved[1].cborHex = Hex(to_cbor(GuiSrc))

\* a file was saved while the export view shows a hex export that differs
\* from the source's serialization
C15_Witness ==
  /\ Saved
  /\ ret.op = "export_transaction" /\ ret.ok /\ ret.output_format = "hex"
  /\ gui.export_view = PlainText(ret.value[1])
  /\ ret.value[1] # Hex(to_cbor(GuiSrc))
  /\ saved[1].cborHex = Hex(to_cbor(GuiSrc))

\* the type line of a saved envelope: status, era name
EnvelopeTypes(tx_status) ==
  {tx_status \o " Tx " \o era \o "Era" : era \in {"Babbage", "Conway"}}

EnvelopeFields == {"type", "description", "cborHex"}

\* C16 as stated: the saved file has exactly the fields type, description and
\* cborHex, and its type is "Signed Tx <Era>Era" when any witness-set field of
\* the loaded transaction is present and "Unwitnessed Tx <Era>Era" otherwise,
\* <Era> being Babbage or Conway.
C16_TypeByPresence ==
  Saved =>
    /\ DOMAIN saved[1] = EnvelopeFields
    /\ saved[1].type \in
         EnvelopeTypes(IF \E f \in WitnessFields :
                            ~Absent(GuiSrc.transaction_witness_set[f])
                       THEN "Signed" ELSE "Unwitnessed")

\* C16 (amended): the saved file has exactly the fields type, description and
\* cborHex, and its type is "Signed Tx <Era>Era" when some witness-set field
\* of the loaded transaction is non-empty and "Unwitnessed Tx <Era>Era" when
\* every witness-set field is absent or empty, <Era> being Babbage or Conway.
C16_TypeByNonEmptiness ==
  Saved =>
    /\ DOMAIN saved[1] = EnvelopeFields
    /\ saved[1].type \in
         EnvelopeTypes(IF \E f \in WitnessFields :
                            Truthy(GuiSrc.transaction_witness_set[f])
                       THEN "Signed" ELSE "Unwitnessed")

\* a transaction whose witness set holds a present but empty field and no
\* witness was saved as unwitnessed
C16_Witness ==
  /\ Saved
  /\ \E f \in WitnessFields : ~Absent(GuiSrc.transaction_witness_set[f])
  /\ saved[1].type = "Unwitnessed Tx ConwayEra"

\* a transaction with scripts but no key witness was saved as signed
C16_WitnessSigned ==
  /\ Saved
  /\ Absent(GuiSrc.transaction_witness_set.vkey_witnesses)
  /\ Truthy(GuiSrc.transaction_witness_set.native_scripts)
  /\ saved[1].type = "Signed Tx BabbageEra"

\* C19: in every state the window reaches by loads (successful or failed),
\* views, exports and saves, Save enabled implies Export enabled, Export
\* enabled implies a transaction is loaded (the window's and the parser's
\* transaction_data are not None), and after a failed load View, Export and
\* Save are all disabled.
C19_ButtonInvariant ==
  /\ gui.save_button => gui.export_button
  /\ gui.export_button => (gui.transaction_data # <<>> /\ Loaded)
  /\ (ret.op = "parse_from_json" /\ ~ret.ok) =>
       (~gui.view_button /\ ~gui.export_button /\ ~gui.save_button)

\* a load failed after an export had enabled Save: the three buttons are off
\* while the earlier transaction and its export are still held
C19_Witness ==
  /\ ret.op = "parse_from_json" /\ ~ret.ok
  /\ gui.transaction_data # <<>>
  /\ ~gui.export_view.placeholder
  /\ ~gui.view_button /\ ~gui.export_button /\ ~gui.save_button

====
